---- MODULE Spec2Model ----
(***************************************************************************)
(* A model of the equity-console client logic: the input engine            *)
(* (inputs/data), the template selectors, and the contract actions         *)
(* (create).                                                               *)
(*                                                                         *)
(* Representation.                                                         *)
(*  - An input name "a.b.c" is the sequence <<"a","b","c">> of its dotted  *)
(*    segments, so name + "." + x is Append(name, x).                      *)
(*  - A JavaScript string is a TLA+ string.  The text a user can type is   *)
(*    drawn from a small vocabulary; Chars gives the characters of each    *)
(*    vocabulary string, and parseInt, the hex test and the hex decoding   *)
(*    are computed over those characters.                                  *)
(*  - JavaScript undefined is the string Undefined.                        *)
(*  - A function that can throw returns [thrown |-> TRUE, err |-> e] or    *)
(*    [thrown |-> FALSE, val |-> v].                                       *)
(***************************************************************************)
EXTENDS Integers, Sequences, FiniteSets, TLC

VARIABLES
    templates,   \* state.templates: source, inputMap, compiled, error, showLockInputErrors
    contracts,   \* state.contracts: isCalling
    inv,         \* the invocations of create(): position, captured values, event trace
    ret          \* the last selector / input-engine call made on the current state and its result

vars == <<templates, contracts, inv, ret>>

Undefined == "<undefined>"

Throw(e) == [thrown |-> TRUE, err |-> e]
Return(v) == [thrown |-> FALSE, val |-> v]

TypeError == "TypeError"

(***************************************************************************)
(* Strings                                                                 *)
(***************************************************************************)

\* The characters of the strings a user types.  A string outside the
\* vocabulary (a type name, undefined) is text that is neither a numeral nor
\* hex: every type name holds a letter outside [a-f0-9].
Chars(s) ==
    CASE s = ""      -> <<>>
      [] s = "0"     -> <<"0">>
      [] s = "1"     -> <<"1">>
      [] s = "4"     -> <<"4">>
      [] s = "32"    -> <<"3", "2">>
      [] s = "500"   -> <<"5", "0", "0">>
      [] s = "520"   -> <<"5", "2", "0">>
      [] s = "521"   -> <<"5", "2", "1">>
      [] s = "-1"    -> <<"-", "1">>
      [] s = "12abc" -> <<"1", "2", "a", "b", "c">>
      [] s = "ab12"  -> <<"a", "b", "1", "2">>
      [] s = "AB12"  -> <<"A", "B", "1", "2">>
      [] s = "abc"   -> <<"a", "b", "c">>
      [] s = "true"  -> <<"t", "r", "u", "e">>
      [] s = "false" -> <<"f", "a", "l", "s", "e">>
      [] OTHER       -> <<"?">>

Digits == <<"0", "1", "2", "3", "4", "5", "6", "7", "8", "9">>

IsDigit(c) == \E i \in 1..10 : Digits[i] = c

DigitValue(c) == (CHOOSE i \in 1..10 : Digits[i] = c) - 1

IsLowerHex(c) == IsDigit(c) \/ c \in {"a", "b", "c", "d", "e", "f"}

IsHexDigit(c) == IsLowerHex(c) \/ c \in {"A", "B", "C", "D", "E", "F"}

ToLower(c) ==
    CASE c = "A" -> "a" [] c = "B" -> "b" [] c = "C" -> "c"
      [] c = "D" -> "d" [] c = "E" -> "e" [] c = "F" -> "f"
      [] OTHER -> c

RECURSIVE DigitPrefix(_)
\* the longest prefix of digits of a character sequence
DigitPrefix(cs) ==
    IF cs = <<>> \/ ~IsDigit(Head(cs)) THEN <<>>
    ELSE <<Head(cs)>> \o DigitPrefix(Tail(cs))

RECURSIVE DecimalValue(_)
DecimalValue(ds) ==
    IF ds = <<>> THEN 0
    ELSE 10 * DecimalValue(SubSeq(ds, 1, Len(ds) - 1)) + DigitValue(ds[Len(ds)])

\* parseInt(s, 10): an optional sign, then the longest run of digits; NaN
\* when there is no digit.  The result is [nan, n].
parseInt(s) ==
    LET cs   == Chars(s)
        neg  == cs # <<>> /\ Head(cs) = "-"
        rest == IF cs # <<>> /\ Head(cs) \in {"-", "+"} THEN Tail(cs) ELSE cs
        ds   == DigitPrefix(rest)
    IN  IF ds = <<>> THEN [nan |-> TRUE, n |-> 0]
        ELSE [nan |-> FALSE, n |-> IF neg THEN 0 - DecimalValue(ds) ELSE DecimalValue(ds)]

isNaN(x) == x.nan

RECURSIVE PairsLowerHex(_)
PairsLowerHex(cs) ==
    \/ cs = <<>>
    \/ /\ Len(cs) >= 2
       /\ IsLowerHex(cs[1])
       /\ IsLowerHex(cs[2])
       /\ PairsLowerHex(SubSeq(cs, 3, Len(cs)))

\* /^([a-f0-9][a-f0-9])*$/.test(str)
validateHex(str) == PairsLowerHex(Chars(str))

\* the first n pairs of characters of cs are pairs of hex digits
HexPairs(cs, n) == \A k \in 1..(2 * n) : IsHexDigit(cs[k])

\* the leading pairs of hex digits of cs, in lowercase
DecodedPairs(cs) ==
    LET n == CHOOSE m \in 0..(Len(cs) \div 2) :
                 /\ HexPairs(cs, m)
                 /\ m < Len(cs) \div 2 => ~HexPairs(cs, m + 1)
    IN  [k \in 1..(2 * n) |-> ToLower(cs[k])]

\* Buffer.from(s, 'hex') read back as lowercase hex: whole pairs of hex
\* digits of either case, up to the first pair that is not hex (cs is
\* evaluated once, whatever expression it is given as).
HexDecode(cs) == CHOOSE hex \in {DecodedPairs(c) : c \in {cs}} : TRUE

Buffer(hex) == [kind |-> "buffer", hex |-> hex, n |-> 0, nan |-> FALSE]

Number(x) == [kind |-> "number", hex |-> <<>>, n |-> x.n, nan |-> x.nan]

\* Buffer.from(s, 'hex'); a TypeError when s is undefined
BufferFromHex(s) ==
    IF s = Undefined THEN Throw(TypeError)
    ELSE Return(Buffer(HexDecode(Chars(s))))

(***************************************************************************)
(* Inputs (inputs/types): every input carries the same fields; a field an  *)
(* input type does not have is Undefined (seed: the empty sequence).       *)
(***************************************************************************)

NoKeyData == [rootXpub |-> Undefined, pubkeyDerivationPath |-> Undefined]

Input(type, name, value) ==
    [type |-> type, name |-> name, value |-> value,
     computedData |-> Undefined, keyData |-> NoKeyData,
     hashFunction |-> Undefined, seed |-> <<>>]

\* inputMap[id]; undefined when the map has no such entry
Has(inputMap, id) == id \in DOMAIN inputMap

\* BTM_ASSET_ID of contracts/constants
BTM_ASSET_ID == "ffffffffffffffffffffffffffffffffffffffffffffffffffffffffffffffff"

\* MIN_NUMBER, MAX_NUMBER of inputs/constants, within the model's integers
MAX_NUMBER == 2147483647
MIN_NUMBER == -2147483647

\* Date.parse(s): milliseconds for a date the engine recognises, else NaN
DateParse(s) ==
    IF s = "2018-01-01" THEN [nan |-> FALSE, n |-> 1514764800]
    ELSE [nan |-> TRUE, n |-> 0]

\* getChild answering the input's own id
getChildUnextended(input) == input.name

getChild(input) == Append(input.name, input.value)

isPrimaryInputType(str) ==
    str \in {"hashInput", "numberInput", "booleanInput", "stringInput",
             "publicKeyInput", "timeInput", "signatureInput", "valueInput",
             "programInput", "assetInput", "amountInput", "provideOriginInput"}

isComplexType(inputType) ==
    inputType \in {"parameterInput", "generateHashInput", "hashInput", "stringInput",
                   "publicKeyInput", "timeInput", "generatePublicKeyInput",
                   "generateSignatureInput", "signatureInput", "programInput"}

\* the parameterised hash types of inputs/types
isHash(type) == type \in {"Sha256", "Sha3"}

HashFunctionOf(type) == IF type = "Sha256" THEN "sha256" ELSE "sha3"

getInputType(type) ==
    IF isHash(type) THEN Return("hashInput")
    ELSE CASE type = "Integer"      -> Return("numberInput")
           [] type = "Boolean"      -> Return("booleanInput")
           [] type = "Hash"         -> Return("stringInput")
           [] type = "String"       -> Return("stringInput")
           [] type = "OriginString" -> Return("provideOriginInput")
           [] type = "PublicKey"    -> Return("publicKeyInput")
           [] type = "Time"         -> Return("timeInput")
           [] type = "Signature"    -> Return("signatureInput")
           [] type = "Value"        -> Return("valueInput")
           [] type = "Program"      -> Return("programInput")
           [] type = "Asset"        -> Return("assetInput")
           [] type = "Amount"       -> Return("amountInput")
           [] OTHER                 -> Throw("can't yet get input type for " \o type)

\* validateInput: a single input, not its children
validateInput(input) ==
    LET t == input.type
        v == input.value
    IN  CASE t \in {"parameterInput", "generateHashInput"} ->
               Return(isPrimaryInputType(v))
          [] t = "stringInput" ->
               Return(v = "generateStringInput" \/ v = "provideStringInput")
          [] t = "hashInput" ->
               Return(v = "generateHashInput" \/ v = "provideHashInput")
          [] t \in {"publicKeyInput", "programInput"} ->
               Return(v = "accountInput" \/ v = "provideStringInput")
          [] t = "generatePublicKeyInput" ->
               Return(v = "generatePrivateKeyInput" \/ v = "providePrivateKeyInput")
          [] t = "timeInput" ->
               Return(v = "timestampTimeInput")
          [] t = "generateSignatureInput" ->
               Return(v = "providePrivateKeyInput")
          [] t = "provideStringInput" ->
               Return(validateHex(v))
          [] t = "provideHashInput" ->
               IF ~validateHex(v) THEN Return(FALSE)
               ELSE IF input.hashFunction \in {"sha256", "sha3"}
                    THEN Return(Len(Chars(v)) = 64)
                    ELSE Throw("unsupported hash function: " \o input.hashFunction)
          [] t = "generateStringInput" ->
               LET length == parseInt(v)
               IN  IF isNaN(length) \/ length.n < 0 \/ length.n > 520 THEN Return(FALSE)
                   ELSE Return(Len(input.seed) = 1040)
          [] t = "booleanInput" ->
               Return(v = "true" \/ v = "false")
          [] t = "numberInput" ->
               LET numberValue == parseInt(v)
               IN  IF isNaN(numberValue) THEN Return(FALSE)
                   ELSE Return(numberValue.n >= MIN_NUMBER /\ numberValue.n <= MAX_NUMBER)
          [] t = "timestampTimeInput" ->
               Return(~isNaN(DateParse(v)))
          [] t = "amountInput" ->
               LET numberValue == parseInt(v)
               IN  IF isNaN(numberValue) THEN Return(FALSE)
                   ELSE IF numberValue.n < 0 THEN Return(FALSE)
                   ELSE Return(TRUE)
          [] t \in {"accountInput", "xpubInput", "pathInput", "assetInput",
                    "passwordInput", "gasInput", "btmUnitInput", "signatureInput",
                    "assetAliasWithBTMInput", "provideOriginInput"} ->
               Return(v # "")
          [] t = "assetAliasInput" ->
               Return(v # "" /\ v # BTM_ASSET_ID)
          [] t = "valueInput" ->
               Return(TRUE)
          [] t = "choosePublicKeyInput" ->
               Return(FALSE)   \* no input of the model carries a keyMap
          [] OTHER ->
               Throw("input type not valid " \o t)

\* a && b where either may throw: b is evaluated only when a returned true
AndThen(a, b) == IF a.thrown THEN a ELSE IF ~a.val THEN a ELSE b

RECURSIVE isValidInput(_, _)

\* isValidInput with the gasInput conjunct of the valueInput case left out
isValidInputWithoutGas(id, inputMap) ==
    IF ~Has(inputMap, id) THEN Throw(TypeError)
    ELSE LET input == inputMap[id]
         IN  CASE input.type \in {"parameterInput", "stringInput", "hashInput",
                                  "generateHashInput", "publicKeyInput", "timeInput",
                                  "signatureInput", "programInput"} ->
                    isValidInput(getChild(input), inputMap)
               [] input.type = "valueInput" ->
                    AndThen(isValidInput(Append(input.name, "accountInput"), inputMap),
                    AndThen(isValidInput(Append(input.name, "assetInput"), inputMap),
                    AndThen(isValidInput(Append(input.name, "amountInput"), inputMap),
                            isValidInput(Append(input.name, "passwordInput"), inputMap))))
               [] OTHER -> validateInput(input)

\* isValidInput: the subtree selected from id
isValidInput(id, inputMap) ==
    IF ~Has(inputMap, id) THEN Throw(TypeError)
    ELSE LET input == inputMap[id]
         IN  CASE input.type \in {"parameterInput", "stringInput", "hashInput",
                                  "generateHashInput", "publicKeyInput", "timeInput",
                                  "signatureInput", "programInput"} ->
                    isValidInput(getChild(input), inputMap)
               [] input.type = "valueInput" ->
                    AndThen(isValidInput(Append(input.name, "accountInput"), inputMap),
                    AndThen(isValidInput(Append(input.name, "assetInput"), inputMap),
                    AndThen(isValidInput(Append(input.name, "amountInput"), inputMap),
                    AndThen(isValidInput(Append(input.name, "passwordInput"), inputMap),
                            isValidInput(Append(input.name, "gasInput"), inputMap)))))
               [] OTHER -> validateInput(input)

\* getGenerateStringInputValue slicing length characters, not length * 2
getGenerateStringInputValueUndoubled(input) ==
    LET length == parseInt(input.value)
    IN  IF isNaN(length) \/ length.n < 0 \/ length.n > 520
        THEN Throw("invalid length value for generateStringInput: " \o input.value)
        ELSE Return(SubSeq(input.seed, 1,
                           IF length.n < Len(input.seed) THEN length.n
                           ELSE Len(input.seed)))

\* input.seed.slice(0, length * 2): at most the whole seed
getGenerateStringInputValue(input) ==
    LET length == parseInt(input.value)
    IN  IF isNaN(length) \/ length.n < 0 \/ length.n > 520
        THEN Throw("invalid length value for generateStringInput: " \o input.value)
        ELSE Return(SubSeq(input.seed, 1,
                           IF length.n * 2 < Len(input.seed) THEN length.n * 2
                           ELSE Len(input.seed)))

\* sha256 / sha3_256 of a buffer: a digest named after its pre-image
sha256(buf) == Buffer(<<"sha256:">> \o buf.hex)

sha3_256(buf) == Buffer(<<"sha3:">> \o buf.hex)

\* strToHexCharCode of contracts/util: the hex character codes of a string
strToHexCharCode(s) ==
    CASE s = ""     -> <<>>
      [] s = "abc"  -> <<"6", "1", "6", "2", "6", "3">>
      [] s = "ab12" -> <<"6", "1", "6", "2", "3", "1", "3", "2">>
      [] OTHER      -> <<"3", "f">>

\* the hash of the child's data, by the hash function of a generateHashInput
HashOfChild(input, childData) ==
    IF childData.thrown THEN childData
    ELSE IF childData.val.kind = "number"
    THEN Throw("should not generate hash of a number")
    ELSE CASE input.hashFunction = "sha256" -> Return(sha256(childData.val))
           [] input.hashFunction = "sha3" -> Return(sha3_256(childData.val))
           [] OTHER -> Throw("unexpected hash function")

\* the bytes of a generated string
GeneratedString(generated) ==
    IF generated.thrown THEN generated
    ELSE Return(Buffer(HexDecode(generated.val)))

RECURSIVE getData(_, _)

\* the switch of getData on the type of a validated input
DataOf(input, inputsById) ==
    LET t == input.type
    IN  CASE t \in {"timeInput", "parameterInput", "stringInput", "hashInput",
                    "signatureInput"} ->
               getData(getChild(input), inputsById)
          [] t \in {"programInput", "publicKeyInput"} ->
               IF input.computedData = Undefined
               THEN Throw("input.computedData unexpectedly undefined")
               ELSE BufferFromHex(input.computedData)
          [] t \in {"provideStringInput", "providePublicKeyInput",
                    "provideHashInput", "provideSignatureInput"} ->
               BufferFromHex(input.value)
          [] t = "assetInput" ->
               BufferFromHex(input.computedData)
          [] t \in {"numberInput", "amountInput"} ->
               Return(Number(parseInt(input.value)))
          [] t = "booleanInput" ->
               Return(Number([nan |-> FALSE, n |-> IF input.value = "true" THEN 0 ELSE 1]))
          [] t = "timestampTimeInput" ->
               Return(Number(DateParse(input.value)))
          [] t = "generateStringInput" ->
               GeneratedString(getGenerateStringInputValue(input))
          [] t = "provideOriginInput" ->
               Return(Buffer(HexDecode(strToHexCharCode(input.value))))
          [] t = "generateHashInput" ->
               HashOfChild(input, getData(getChild(input), inputsById))
          [] OTHER ->
               Throw("should not call getData with " \o t)

\* getData once validateInput has answered
ValidatedData(input, inputsById, ok) ==
    IF ok.thrown THEN ok
    ELSE IF ~ok.val THEN Throw("invalid input")
    ELSE DataOf(input, inputsById)

\* getData: the bytes or the number an input stands for
getData(inputId, inputsById) ==
    IF ~Has(inputsById, inputId) THEN Throw(TypeError)
    ELSE ValidatedData(inputsById[inputId], inputsById, validateInput(inputsById[inputId]))

(***************************************************************************)
(* Default input trees                                                     *)
(***************************************************************************)

getDefaultContractParameterValue(inputType, inputContext) ==
    CASE inputType \in {"parameterInput", "generateHashInput", "booleanInput"} ->
           Return("false")
      [] inputType = "generateStringInput" -> Return("32")
      [] inputType \in {"numberInput", "timestampTimeInput"} -> Return("")
      [] inputType \in {"provideStringInput", "provideHashInput", "providePublicKeyInput",
                        "providePrivateKeyInput", "provideSignatureInput"} -> Return("")
      [] inputType = "stringInput" -> Return("generateStringInput")
      [] inputType = "hashInput" -> Return("generateHashInput")
      [] inputType = "generatePublicKeyInput" -> Return("generatePrivateKeyInput")
      [] inputType = "publicKeyInput" -> Return("accountInput")
      [] inputType = "generateSignatureInput" -> Return("providePrivateKeyInput")
      [] inputType = "programInput" -> Return("accountInput")
      [] inputType = "timeInput" -> Return("timestampTimeInput")
      [] inputType = "assetInput" ->
           IF inputContext = "contractValue" THEN Return("assetAliasInput")
           ELSE Return("assetAliasWithBTMInput")
      [] inputType \in {"provideOriginInput", "accountInput", "assetAliasInput", "xpubInput",
                        "pathInput", "valueInput", "amountInput", "passwordInput",
                        "gasInput", "btmUnitInput"} -> Return("")
      [] inputType \in {"signatureInput", "choosePublicKeyInput",
                        "generatePrivateKeyInput"} ->
           Throw(inputType \o " should not be allowed")
      [] OTHER -> Return(Undefined)

getDefaultUnlockValue(inputType, inputContext) ==
    IF inputType = "programInput" THEN Return("generateProgramInput")
    ELSE getDefaultContractParameterValue(inputType, inputContext)

getDefaultClauseParameterValue(inputType) ==
    CASE inputType \in {"parameterInput", "generateHashInput"} ->
           Throw("getDefaultClauseParameterValue should not be called on " \o inputType)
      [] inputType = "booleanInput" -> Return("false")
      [] inputType = "generateStringInput" -> Return("32")
      [] inputType \in {"numberInput", "timestampTimeInput"} -> Return("")
      [] inputType \in {"provideStringInput", "provideHashInput", "providePublicKeyInput",
                        "providePrivateKeyInput", "provideSignatureInput"} -> Return("")
      [] inputType = "stringInput" -> Return("provideStringInput")
      [] inputType = "hashInput" -> Return("provideHashInput")
      [] inputType = "publicKeyInput" -> Return("accountInput")
      [] inputType = "assetInput" -> Return("assetAliasInput")
      [] inputType = "signatureInput" -> Return("accountInput")
      [] inputType \in {"generatePublicKeyInput", "generateSignatureInput"} ->
           Return("providePrivateKeyInput")
      [] inputType = "timeInput" -> Return("blockheightTimeInput")
      [] inputType = "programInput" -> Return("accountInput")
      [] inputType \in {"accountInput", "xpubInput", "pathInput", "valueInput",
                        "assetAliasInput", "amountInput", "passwordInput", "gasInput",
                        "btmUnitInput", "choosePublicKeyInput"} -> Return("")
      [] inputType = "generatePrivateKeyInput" ->
           Throw(inputType \o " should not be allowed")
      [] OTHER -> Return(Undefined)

getInputNameContext(name) == Head(name)

getDefaultValue(inputType, name) ==
    LET inputContext == getInputNameContext(name)
    IN  CASE inputContext = "clauseParameters" -> getDefaultClauseParameterValue(inputType)
          [] inputContext = "contractParameters" ->
               getDefaultContractParameterValue(inputType, inputContext)
          [] inputContext = "contractValue" ->
               getDefaultContractParameterValue(inputType, inputContext)
          [] inputContext = "clauseValue" -> getDefaultClauseParameterValue(inputType)
          [] inputContext = "unlockValue" -> getDefaultUnlockValue(inputType, inputContext)
          [] OTHER -> Return(Undefined)

\* crypto.randomBytes(520).toString('hex'): 1040 hex characters
RandomSeed == [i \in 1..1040 |-> IF i % 2 = 1 THEN "a" ELSE Digits[(i % 10) + 1]]

\* the children the second switch of addDefaultInput adds, in order; a case
\* without return falls into the next one
DefaultChildren(inputType, inputContext) ==
    CASE inputType = "stringInput" -> <<"generateStringInput", "provideStringInput">>
      [] inputType = "publicKeyInput" -> <<"accountInput", "provideStringInput">>
      [] inputType = "generatePublicKeyInput" ->
           <<"generatePrivateKeyInput", "providePrivateKeyInput", "timestampTimeInput">>
      [] inputType = "timeInput" -> <<"timestampTimeInput">>
      [] inputType = "signatureInput" -> <<"accountInput">>
      [] inputType = "generateSignatureInput" -> <<"providePrivateKeyInput">>
      [] inputType = "valueInput" ->
           <<"accountInput", "assetInput", "amountInput", "passwordInput", "gasInput">>
      [] inputType = "programInput" -> <<"accountInput", "provideStringInput">>
      [] inputType = "assetInput" ->
           IF inputContext = "contractValue" \/ inputContext = "clauseParameters"
           THEN <<"assetAliasInput", "provideStringInput">>
           ELSE <<"assetAliasWithBTMInput", "provideStringInput">>
      [] inputType = "gasInput" -> <<"btmUnitInput">>
      [] OTHER -> <<>>

\* the list a builder leaves behind, and whether it threw
Built(inputs) == [thrown |-> FALSE, err |-> "", inputs |-> inputs]

Failed(inputs, e) == [thrown |-> TRUE, err |-> e, inputs |-> inputs]

RECURSIVE addDefaultInput(_, _, _)
RECURSIVE addDefaultInputs(_, _, _)

\* addDefaultInput for each of types in turn, stopping at the first throw
NextDefaultInputs(first, types, parentName) ==
    IF first.thrown THEN first
    ELSE addDefaultInputs(first.inputs, Tail(types), parentName)

addDefaultInputs(inputs, types, parentName) ==
    IF types = <<>> THEN Built(inputs)
    ELSE NextDefaultInputs(addDefaultInput(inputs, Head(types), parentName), types, parentName)

\* the node the first switch of addDefaultInput pushes
DefaultNode(inputType, name, value) ==
    CASE inputType = "generateStringInput" ->
           [Input("generateStringInput", name, value) EXCEPT !.seed = RandomSeed]
      [] inputType = "btmUnitInput" -> Input("btmUnitInput", name, "btm")
      [] OTHER -> Input(inputType, name, value)

\* addDefaultInput once the default value is known
AddWithDefault(inputs, inputType, parentName, value) ==
    IF value.thrown THEN Failed(inputs, value.err)
    ELSE addDefaultInputs(Append(inputs, DefaultNode(inputType, Append(parentName, inputType),
                                                     value.val)),
                          DefaultChildren(inputType, Head(parentName)),
                          Append(parentName, inputType))

addDefaultInput(inputs, inputType, parentName) ==
    AddWithDefault(inputs, inputType, parentName,
                   getDefaultValue(inputType, Append(parentName, inputType)))

RECURSIVE addInputForType(_, _, _)

\* the end of addHashInputs: the provideHashInput is pushed
PushProvideHash(origin, type, parentName) ==
    IF origin.thrown THEN origin
    ELSE Built(Append(origin.inputs,
                      [Input("provideHashInput", Append(parentName, "provideHashInput"), "")
                          EXCEPT !.hashFunction = HashFunctionOf(type)]))

addHashInputs(inputs, type, parentName) ==
    PushProvideHash(
        addInputForType(
            Append(inputs,
                   [Input("generateHashInput", Append(parentName, "generateHashInput"),
                          getInputType("OriginString").val)
                       EXCEPT !.hashFunction = HashFunctionOf(type)]),
            "OriginString", Append(parentName, "generateHashInput")),
        type, parentName)

addHashInput(inputs, type, parentName) ==
    LET name == Append(parentName, "hashInput")
        hashInput ==
            [Input("hashInput", name, "generateHashInput")
                EXCEPT !.hashFunction = HashFunctionOf(type)]
    IN  addHashInputs(Append(inputs, hashInput), type, name)

addInputForType(inputs, parameterType, parentName) ==
    IF isHash(parameterType) THEN addHashInput(inputs, parameterType, parentName)
    ELSE IF getInputType(parameterType).thrown
    THEN Failed(inputs, getInputType(parameterType).err)
    ELSE addDefaultInput(inputs, getInputType(parameterType).val, parentName)

addParameterInput(inputs, valueType, name) ==
    IF getInputType(valueType).thrown THEN Failed(inputs, getInputType(valueType).err)
    ELSE addInputForType(Append(inputs, Input("parameterInput", name,
                                              getInputType(valueType).val)),
                         valueType, name)

(***************************************************************************)
(* Application state and selectors (templates/selectors)                   *)
(*                                                                         *)
(* state.templates.inputMap is [defined, ids, byId]: ids is the key order  *)
(* of the object (the order the inputs were added), byId the entries.      *)
(* state.templates.compiled is [defined, params, value].                   *)
(***************************************************************************)

getTemplateState(state) == state.templates

getSource(state) == getTemplateState(state).source

getInputMap(state) == getTemplateState(state).inputMap

\* the input map as a list, in key order
getInputList(state) ==
    LET inputMap == getInputMap(state)
    IN  [i \in 1..Len(inputMap.ids) |-> inputMap.byId[inputMap.ids[i]]]

getCompiled(state) == getTemplateState(state).compiled

getContractParameters(state) == getCompiled(state).params

\* getParameterIds; meaningful when compiled is defined
getParameterIds(state) ==
    LET contractParameters == getContractParameters(state)
    IN  [i \in 1..Len(contractParameters) |->
            <<"contractParameters", contractParameters[i].name>>]

getContractValueId(state) == <<"contractValue", getCompiled(state).value>>

None == [some |-> FALSE]

Some(v) == [some |-> TRUE, v |-> v]

RECURSIVE ContractValueSources(_, _, _)
\* the forEach of getContractValue over inputList[i..], collecting sources
ContractValueSources(inputMap, inputList, sources) ==
    IF inputList = <<>> THEN Return(sources)
    ELSE LET input == Head(inputList)
             inputName == input.name
         IN  IF input.type # "valueInput"
             THEN ContractValueSources(inputMap, Tail(inputList), sources)
             ELSE IF \E c \in {"accountInput", "assetInput", "amountInput", "passwordInput"} :
                        ~Has(inputMap, Append(inputName, c))
             THEN Throw(TypeError)
             ELSE LET accountId == inputMap[Append(inputName, "accountInput")].value
                      assetId   == inputMap[Append(inputName, "assetInput")].value
                      amount    == parseInt(inputMap[Append(inputName, "amountInput")].value)
                      password  == inputMap[Append(inputName, "passwordInput")].value
                  IN  IF isNaN(amount) \/ amount.n < 0
                         \/ accountId \in {"", Undefined} \/ assetId \in {"", Undefined}
                      THEN ContractValueSources(inputMap, Tail(inputList), sources)
                      ELSE ContractValueSources(inputMap, Tail(inputList),
                               Append(sources,
                                      [type |-> "spendFromAccount", accountId |-> accountId,
                                       assetId |-> assetId, amount |-> amount.n,
                                       password |-> password]))

\* the sources of getContractValue, or its TypeError on an undefined list
CollectedSources(state) ==
    IF ~getInputMap(state).defined THEN Throw(TypeError)
    ELSE ContractValueSources(getInputMap(state).byId, getInputList(state), <<>>)

\* the first source whenever there is one
FirstSource(sources) ==
    IF sources.thrown THEN sources
    ELSE IF Len(sources.val) < 1 THEN Return(None)
    ELSE Return(Some(sources.val[1]))

\* the end of getContractValue: the source when there is exactly one
SingleSource(sources) ==
    IF sources.thrown THEN sources
    ELSE IF Len(sources.val) # 1 THEN Return(None)
    ELSE Return(Some(sources.val[1]))

\* getContractValue: the one funding source, or none
getContractValue(state) == SingleSource(CollectedSources(state))

RECURSIVE InvalidIds(_, _)

\* the filter kept id when it is not valid
KeepInvalid(id, valid, rest) ==
    IF rest.thrown THEN rest
    ELSE Return((IF valid.val THEN <<>> ELSE <<id>>) \o rest.val)

\* one turn of the filter
FilterInvalid(ids, inputMap, valid) ==
    IF valid.thrown THEN valid
    ELSE KeepInvalid(Head(ids), valid, InvalidIds(Tail(ids), inputMap))

\* the filter of areInputsValid: the ids that are not valid, or the first throw
InvalidIds(ids, inputMap) ==
    IF ids = <<>> THEN Return(<<>>)
    ELSE FilterInvalid(ids, inputMap, isValidInput(Head(ids), inputMap))

\* invalid.length === 0
NoneInvalid(invalid) == IF invalid.thrown THEN invalid ELSE Return(Len(invalid.val) = 0)

areInputsValid(state) ==
    IF ~getInputMap(state).defined \/ ~getCompiled(state).defined THEN Return(FALSE)
    ELSE NoneInvalid(InvalidIds(Append(getParameterIds(state), getContractValueId(state)),
                                getInputMap(state).byId))

RECURSIVE ContractArgsLoop(_, _, _)

\* one turn of the loop: the data of the first id is pushed, or its throw ends
\* the loop
PushArg(parameterIds, inputMap, contractArgs, data) ==
    IF data.thrown THEN data
    ELSE ContractArgsLoop(Tail(parameterIds), inputMap, Append(contractArgs, data.val))

\* the for loop of getContractArgs
ContractArgsLoop(parameterIds, inputMap, contractArgs) ==
    IF parameterIds = <<>> THEN Return(contractArgs)
    ELSE PushArg(parameterIds, inputMap, contractArgs, getData(Head(parameterIds), inputMap))

\* no catch: a failure of getData propagates
PropagateArgs(contractArgs) == contractArgs

\* the try / catch of getContractArgs around its loop
CatchArgs(contractArgs) == IF contractArgs.thrown THEN Return(<<>>) ELSE contractArgs

\* getContractArgs(state, inputMap); inputMap is an object of entries (byId)
getContractArgs(state, inputMap) ==
    IF ~getCompiled(state).defined
    THEN Throw("parameter IDs should not be undefined when getParameterData is called")
    ELSE CatchArgs(ContractArgsLoop(getParameterIds(state), inputMap, <<>>))

(***************************************************************************)
(* The states of the application                                           *)
(***************************************************************************)

Param(name, type) == [name |-> name, type |-> type]

Compiled(params, value) == [defined |-> TRUE, params |-> params, value |-> value]

NotCompiled == [defined |-> FALSE, params |-> <<>>, value |-> Undefined]

RECURSIVE ParameterInputs(_, _)

NextParameterInputs(first, params) ==
    IF first.thrown THEN first
    ELSE ParameterInputs(first.inputs, Tail(params))

\* addParameterInput for every contract parameter, in order
ParameterInputs(inputs, params) ==
    IF params = <<>> THEN Built(inputs)
    ELSE NextParameterInputs(addParameterInput(inputs, Head(params).type,
                                               <<"contractParameters", Head(params).name>>),
                             params)

ValueInputs(params, compiled) ==
    IF params.thrown THEN params
    ELSE addParameterInput(params.inputs, "Value", <<"contractValue", compiled.value>>)

\* the inputs of a compiled template: its parameters, then its value
TemplateInputs(compiled) == ValueInputs(ParameterInputs(<<>>, compiled.params), compiled)

\* the input map of a list of inputs, keyed by name
InputMapOf(inputs) ==
    [defined |-> TRUE,
     ids     |-> [i \in 1..Len(inputs) |-> inputs[i].name],
     byId    |-> [id \in {inputs[i].name : i \in 1..Len(inputs)} |->
                    inputs[CHOOSE i \in 1..Len(inputs) : inputs[i].name = id]]]

NoInputMap == [defined |-> FALSE, ids |-> <<>>, byId |-> [id \in {} |-> Undefined]]

\* state.templates once the template has been compiled and its inputs built
TemplateState(source, compiled) ==
    [source |-> source,
     inputMap |-> InputMapOf(TemplateInputs(compiled).inputs),
     compiled |-> compiled,
     error |-> [kind |-> "none"],
     showLockInputErrors |-> FALSE]

\* state.templates before any template is compiled
EmptyTemplateState(source) ==
    [source |-> source, inputMap |-> NoInputMap, compiled |-> NotCompiled,
     error |-> [kind |-> "none"], showLockInputErrors |-> FALSE]

State == [templates |-> templates, contracts |-> contracts]

\* the UPDATE_INPUT reducer: the named input's value is replaced
WithInput(tmpl, name, newValue) ==
    [tmpl EXCEPT !.inputMap.byId[name].value = newValue]

\* the values the forms offer for an input of a type
EditChoices(type) ==
    CASE type = "accountInput"       -> {"", "acc1"}
      [] type = "assetInput"         -> {"", "assetAliasInput"}
      [] type = "amountInput"        -> {"", "500", "-1", "12abc"}
      [] type = "passwordInput"      -> {"", "pw"}
      [] type = "gasInput"           -> {"", "1"}
      [] type = "numberInput"        -> {"", "500"}
      [] type = "booleanInput"       -> {"true", "false"}
      [] type = "publicKeyInput"     -> {"accountInput", "provideStringInput"}
      [] OTHER                       -> {}

NoCall == [fn |-> "none"]

\* the templates the selectors are exercised on
DataTemplates ==
    { Compiled(<<>>, "v"),
      Compiled(<<Param("val", "Value")>>, "v"),
      Compiled(<<Param("b", "Boolean"), Param("n", "Integer")>>, "v") }

InitData ==
    /\ templates \in {TemplateState("src", c) : c \in DataTemplates}
                     \cup {EmptyTemplateState("src")}
    /\ contracts = [isCalling |-> FALSE]
    /\ inv = <<>>
    /\ ret = NoCall

\* updateInput(name, newValue): the user edits one input
UpdateInput(name, newValue) ==
    /\ templates.inputMap.byId[name].value # newValue
    /\ templates' = WithInput(templates, name, newValue)
    /\ ret' = NoCall
    /\ UNCHANGED <<contracts, inv>>

CallIsValidInput(id) ==
    /\ ret = NoCall
    /\ ret' = [fn |-> "isValidInput", id |-> id,
               out |-> isValidInput(id, getInputMap(State).byId)]
    /\ UNCHANGED <<templates, contracts, inv>>

CallGetContractValue ==
    /\ ret = NoCall
    /\ ret' = [fn |-> "getContractValue", out |-> getContractValue(State)]
    /\ UNCHANGED <<templates, contracts, inv>>

CallGetContractArgs ==
    /\ ret = NoCall
    /\ ret' = [fn |-> "getContractArgs",
               out |-> getContractArgs(State, getInputMap(State).byId)]
    /\ UNCHANGED <<templates, contracts, inv>>

\* the ids validation starts from: the ids areInputsValid checks, and the
\* valueInput nodes
ValidationRoots ==
    IF ~templates.inputMap.defined THEN {}
    ELSE {getParameterIds(State)[i] : i \in 1..Len(getParameterIds(State))}
         \cup {getContractValueId(State)}
         \cup {id \in DOMAIN templates.inputMap.byId :
                  templates.inputMap.byId[id].type = "valueInput"}

NextData ==
    \/ \E name \in DOMAIN templates.inputMap.byId :
         \E newValue \in EditChoices(templates.inputMap.byId[name].type) :
            UpdateInput(name, newValue)
    \/ \E id \in ValidationRoots : CallIsValidInput(id)
    \/ CallGetContractValue
    \/ CallGetContractArgs

SpecData == InitData /\ [][NextData]_vars

(***************************************************************************)
(* Asynchronous resolution (inputs/data): getPromiseData either settles at *)
(* once or issues a remote call whose answer arrives later.                *)
(***************************************************************************)

Settled(input) == [settled |-> TRUE, input |-> input]

Remote(op, input, arg) == [settled |-> FALSE, op |-> op, input |-> input, arg |-> arg]

getPromiseData(inputId, inputsById) ==
    LET input == inputsById[inputId]
        child == Append(input.name, input.value)
    IN  IF input.type \notin {"assetInput", "programInput", "publicKeyInput"}
        THEN Throw("cannot call getPromiseData with " \o input.type)
        ELSE IF ~Has(inputsById, child) THEN Throw(TypeError)
        ELSE LET inputValue == inputsById[child].value
             IN  CASE input.type = "assetInput" ->
                        Return(Settled([input EXCEPT !.computedData = inputValue]))
                   [] input.type = "programInput" ->
                        IF input.value = "provideStringInput"
                        THEN Return(Settled([input EXCEPT !.computedData = inputValue]))
                        ELSE Return(Remote("listReceiver", input, inputValue))
                   [] input.type = "publicKeyInput" ->
                        IF input.value = "provideStringInput"
                        THEN Return(Settled([input EXCEPT !.computedData = inputValue]))
                        ELSE Return(Remote("createAccountPubkey", input, inputValue))

\* the entry a remote answer turns into (the then-callbacks of getPromiseData)
ResolvedInput(input, answer) ==
    IF input.type = "programInput"
    THEN [input EXCEPT !.computedData = answer.control_program]
    ELSE [input EXCEPT !.computedData = answer.pubkey_infos[1].pubkey,
                       !.keyData = [rootXpub |-> answer.root_xpub,
                                    pubkeyDerivationPath |->
                                        answer.pubkey_infos[1].pubkey_derivation_path]]

\* whether getPromisedInputMap hands the entry to getPromiseData
NeedsPromiseData(input) ==
    input.type = "publicKeyInput" \/ input.type = "programInput" \/ input.type = "assetInput"

\* an entry that is left out of the new map
LeftOut(entries, id, input) == entries

\* an entry getPromisedInputMap copies as it is
PassThrough(entries, id, input) == entries @@ (id :> input)

RECURSIVE PromisedInputLoop(_, _, _)
\* the for-in loop of getPromisedInputMap over ids: the entries settled so
\* far, the remote calls issued (in order), and whether getPromiseData threw
PromisedInputLoop(ids, inputsById, acc) ==
    IF ids = <<>> THEN acc
    ELSE LET id    == Head(ids)
             input == inputsById[id]
         IN  IF NeedsPromiseData(input)
             THEN LET p == getPromiseData(id, inputsById)
                  IN  IF p.thrown THEN [acc EXCEPT !.thrown = TRUE, !.err = p.err]
                      ELSE IF p.val.settled
                      THEN PromisedInputLoop(Tail(ids), inputsById,
                               [acc EXCEPT !.entries = @ @@ (id :> p.val.input)])
                      ELSE PromisedInputLoop(Tail(ids), inputsById,
                               [acc EXCEPT !.calls = Append(@,
                                   [id |-> id, op |-> p.val.op, arg |-> p.val.arg])])
             ELSE PromisedInputLoop(Tail(ids), inputsById,
                      [acc EXCEPT !.entries = PassThrough(@, id, input)])

\* getPromisedInputMap up to its return: Promise.props then waits for calls
getPromisedInputMap(inputMap) ==
    PromisedInputLoop(inputMap.ids, inputMap.byId,
                      [thrown |-> FALSE, err |-> "", calls |-> <<>>,
                       entries |-> [id \in {} |-> Undefined]])

\* a join that does not wait
SettledAtOnce(pending) == TRUE

\* Promise.props resolves once no entry is outstanding
AllSettled(pending) == pending = {}

(***************************************************************************)
(* Claims about the selectors and the input engine (SpecData)              *)
(***************************************************************************)

ValueChildren == {"accountInput", "assetInput", "amountInput", "passwordInput", "gasInput"}

\* the valueInput entries of the current input map
ValueInputIds ==
    {id \in DOMAIN templates.inputMap.byId : templates.inputMap.byId[id].type = "valueInput"}

\* whether one of the five sub-inputs of the valueInput at id is valid on its own
SubInputValid(id, c) == validateInput(templates.inputMap.byId[Append(id, c)]).val

\* C8: getContractArgs fails only when the parameter-id list is undefined;
\* with a defined list it returns the empty list when getData fails for some
\* parameter id, and otherwise the getData results in parameter-id order.
C8_ContractArgs ==
    ret.fn = "getContractArgs" =>
        LET ids  == getParameterIds(State)
            byId == getInputMap(State).byId
        IN  IF ~getCompiled(State).defined THEN ret.out.thrown
            ELSE /\ ~ret.out.thrown
                 /\ IF \E i \in 1..Len(ids) : getData(ids[i], byId).thrown
                    THEN ret.out.val = <<>>
                    ELSE /\ Len(ret.out.val) = Len(ids)
                         /\ \A i \in 1..Len(ids) : ret.out.val[i] = getData(ids[i], byId).val

\* C8 witness: the first parameter resolves, the second fails, and the result
\* is the empty list
C8_Witness ==
    /\ ret.fn = "getContractArgs"
    /\ getCompiled(State).defined
    /\ Len(getParameterIds(State)) = 2
    /\ ~getData(getParameterIds(State)[1], getInputMap(State).byId).thrown
    /\ getData(getParameterIds(State)[2], getInputMap(State).byId).thrown
    /\ ret.out = Return(<<>>)

\* C9: on a valueInput whose five sub-inputs are present, isValidInput is
\* true exactly when each of the five is valid on its own.
C9_ValueInputValid ==
    (/\ ret.fn = "isValidInput"
     /\ ret.id \in ValueInputIds
     /\ \A c \in ValueChildren : Has(templates.inputMap.byId, Append(ret.id, c)))
    => /\ ~ret.out.thrown
       /\ ret.out.val = (\A c \in ValueChildren : SubInputValid(ret.id, c))

\* C9 witness: four sub-inputs are valid, the gas input alone is not, and the
\* valueInput is reported invalid
C9_Witness ==
    /\ ret.fn = "isValidInput"
    /\ ret.id \in ValueInputIds
    /\ \A c \in ValueChildren \ {"gasInput"} : SubInputValid(ret.id, c)
    /\ ~SubInputValid(ret.id, "gasInput")
    /\ ret.out = Return(FALSE)

\* whether the subtree of the valueInput at id is fully populated
Populated(id) ==
    LET byId   == templates.inputMap.byId
        amount == parseInt(byId[Append(id, "amountInput")].value)
    IN  /\ byId[Append(id, "accountInput")].value # ""
        /\ byId[Append(id, "assetInput")].value # ""
        /\ ~amount.nan
        /\ amount.n >= 0

PopulatedValueInputs == {id \in ValueInputIds : Populated(id)}

\* C10: getContractValue returns a funding source exactly when one valueInput
\* of the list is fully populated, and the source's fields are those of that
\* subtree; with none or with several it returns none.
C10_ContractValue ==
    (ret.fn = "getContractValue" /\ templates.inputMap.defined) =>
        /\ ~ret.out.thrown
        /\ ret.out.val.some <=> Cardinality(PopulatedValueInputs) = 1
        /\ ret.out.val.some =>
             \E id \in PopulatedValueInputs :
                LET byId == templates.inputMap.byId
                IN  /\ ret.out.val.v.type = "spendFromAccount"
                    /\ ret.out.val.v.accountId = byId[Append(id, "accountInput")].value
                    /\ ret.out.val.v.assetId = byId[Append(id, "assetInput")].value
                    /\ ret.out.val.v.amount = parseInt(byId[Append(id, "amountInput")].value).n
                    /\ ret.out.val.v.password = byId[Append(id, "passwordInput")].value

\* C10 witness: two valueInput entries, one of them fully populated, and its
\* funding source is returned
C10_Witness ==
    /\ ret.fn = "getContractValue"
    /\ Cardinality(ValueInputIds) = 2
    /\ Cardinality(PopulatedValueInputs) = 1
    /\ ~ret.out.thrown
    /\ ret.out.val.some
    /\ ret.out.val.v.amount = 12

(***************************************************************************)
(* The contract actions (contracts/actions): create                        *)
(*                                                                         *)
(* An invocation of create() is a record: pc, where it stands; state, the  *)
(* state it read; inputsById, the input map it handed to                   *)
(* getPromisedInputMap; pending, the inputs whose remote call is           *)
(* outstanding; entries, the entries of the promised map settled so far;   *)
(* trace, what it has done, in order: the actions it dispatched, the       *)
(* remote calls it made, the answers it received.                          *)
(***************************************************************************)

\* the number of times create() is invoked
MaxCreates == 2

\* the gas amount of create
GasAmount == 20000000

GasAssetId == "ffffffffffffffffffffffffffffffffffffffffffffffffffffffffffffffff"

updateIsCalling(isCalling) == [type |-> "contracts/UPDATE_IS_CALLING", isCalling |-> isCalling]

\* the action creators of templates/actions
setSource(source) == [type |-> "templates/SET_SOURCE", source |-> source]

showLockInputMessages(result) == [type |-> "templates/SHOW_LOCK_INPUT_MESSAGES", result |-> result]

updateLockMessage(error) == [type |-> "templates/UPDATE_LOCK_MESSAGE", error |-> error]

ErrorMessage(err) == [kind |-> "_error", text |-> err]

SuccessMessage(transactionId) ==
    [kind |-> "_success", text |-> "transactions has been submited successfully.",
     transactionId |-> transactionId]

InvalidArguments == "One or more arguments to the contract are invalid."

\* the reducers: what a dispatched action does to the state
Reduce(state, action) ==
    CASE action.type = "contracts/UPDATE_IS_CALLING" ->
           [state EXCEPT !.contracts.isCalling = action.isCalling]
      [] action.type = "templates/SET_SOURCE" ->
           [state EXCEPT !.templates.source = action.source]
      [] action.type = "templates/SHOW_LOCK_INPUT_MESSAGES" ->
           [state EXCEPT !.templates.showLockInputErrors = action.result]
      [] action.type = "templates/UPDATE_LOCK_MESSAGE" ->
           [state EXCEPT !.templates.error = action.error]

RECURSIVE ReduceAll(_, _)
ReduceAll(state, actions) ==
    IF actions = <<>> THEN state
    ELSE ReduceAll(Reduce(state, Head(actions)), Tail(actions))

Dispatched(action) == [ev |-> "dispatch", action |-> action]

Threw(err) == [ev |-> "throw", err |-> err]

\* the invalid-inputs branch leaving the busy flag set
AbortKeepingBusy ==
    <<showLockInputMessages(TRUE),
      updateLockMessage(ErrorMessage(InvalidArguments))>>

\* the dispatches of the invalid-inputs branch of create
AbortDispatches ==
    <<updateIsCalling(FALSE),
      showLockInputMessages(TRUE),
      updateLockMessage(ErrorMessage(InvalidArguments))>>

\* the catch handler leaving the busy flag set
FailureKeepingBusy(err) ==
    <<updateLockMessage(ErrorMessage(err)),
      showLockInputMessages(TRUE)>>

\* the dispatches of the catch handler of create
FailureDispatches(err) ==
    <<updateIsCalling(FALSE),
      updateLockMessage(ErrorMessage(err)),
      showLockInputMessages(TRUE)>>

\* the then handler clearing the busy flag first
SuccessClearingBusyFirst(source, utxo) ==
    <<updateIsCalling(FALSE),
      setSource(source),
      updateLockMessage(SuccessMessage(utxo.transactionId)),
      showLockInputMessages(TRUE)>>

\* the dispatches of the then handler of create
SuccessDispatches(source, utxo) ==
    <<setSource(source),
      updateIsCalling(FALSE),
      updateLockMessage(SuccessMessage(utxo.transactionId)),
      showLockInputMessages(TRUE)>>

\* the events of a list of dispatches
DispatchEvents(actions) == [k \in 1..Len(actions) |-> Dispatched(actions[k])]

\* the coercion of one contract argument to its wire form
CoerceArg(param) ==
    IF param.kind = "buffer" THEN [string |-> param.hex]
    ELSE [integer |-> [n |-> param.n, nan |-> param.nan]]

\* the map of create with the last argument lost
CoerceAllButLast(contractArgs) ==
    IF contractArgs.thrown THEN contractArgs
    ELSE Return([k \in 1..(Len(contractArgs.val) - 1) |-> CoerceArg(contractArgs.val[k])])

\* the map of create over the contract arguments
CoerceArgs(contractArgs) ==
    IF contractArgs.thrown THEN contractArgs
    ELSE Return([k \in 1..Len(contractArgs.val) |-> CoerceArg(contractArgs.val[k])])

\* the arguments create passes to compile
CompileArgs(state, inputMap) == CoerceArgs(getContractArgs(state, inputMap))

\* a compile response never taken for a failure
CompileNeverFailed(status) == FALSE

\* whether the compile response reports a failure
CompileFailed(status) == status = "fail"

\* template.program: undefined when the response's data carries no program
ProgramOf(template) ==
    IF "program" \in DOMAIN template THEN template.program ELSE Undefined

\* the actions of create with the gas spend first
LockingActionsGasFirst(spendFromAccount, template) ==
    <<[accountId |-> spendFromAccount.accountId,
       amount |-> GasAmount,
       type |-> "spendFromAccount",
       assetId |-> GasAssetId],
      spendFromAccount,
      [type |-> "controlWithReceiver",
       receiver |-> [controlProgram |-> ProgramOf(template)],
       assetId |-> spendFromAccount.assetId,
       amount |-> spendFromAccount.amount]>>

\* the actions create submits for a compiled template
LockingActions(spendFromAccount, template) ==
    <<spendFromAccount,
      [type |-> "controlWithReceiver",
       receiver |-> [controlProgram |-> ProgramOf(template)],
       assetId |-> spendFromAccount.assetId,
       amount |-> spendFromAccount.amount],
      [accountId |-> spendFromAccount.accountId,
       amount |-> GasAmount,
       type |-> "spendFromAccount",
       assetId |-> GasAssetId]>>

NoEntries == [id \in {} |-> Undefined]

Invocation(pc, state, trace) ==
    [pc |-> pc, state |-> state, trace |-> trace,
     source |-> getSource(state), spendFromAccount |-> None,
     inputsById |-> NoEntries, pending |-> {}, entries |-> NoEntries]

\* the catch handler: the failure is dispatched
Fail(r, err) ==
    [r EXCEPT !.pc = "failed",
              !.trace = @ \o DispatchEvents(FailureDispatches(err))]

\* the first then-callback: the promised input map has resolved, the
\* arguments are computed and compile is called
CompileWith(r, args) ==
    IF args.thrown THEN Fail(r, args.err)
    ELSE [r EXCEPT !.pc = "compiling",
                   !.trace = Append(@, [ev |-> "call", op |-> "compile",
                                        source |-> r.source, args |-> args.val])]

CallCompile(r) == CompileWith(r, CompileArgs(r.state, r.entries))

\* the events of the remote calls getPromisedInputMap issued
CallEvents(calls) ==
    [k \in 1..Len(calls) |->
        [ev |-> "call", op |-> calls[k].op, id |-> calls[k].id, arg |-> calls[k].arg]]

\* create() from line 69: the input map is handed to getPromisedInputMap;
\* with no remote call outstanding the callbacks run before any other event
CreatePromised(r, promised) ==
    LET r2 == [r EXCEPT !.trace = @ \o CallEvents(promised.calls),
                        !.pending = {promised.calls[k].id : k \in 1..Len(promised.calls)},
                        !.entries = promised.entries]
    IN  IF promised.thrown
        THEN [r2 EXCEPT !.pc = "threw", !.trace = Append(@, Threw(promised.err))]
        ELSE IF AllSettled(r2.pending) THEN CallCompile(r2)
        ELSE r2

\* create() from line 62: the funding source is read
CreateFunded(start, spendFromAccount) ==
    IF spendFromAccount.thrown
    THEN [start EXCEPT !.pc = "threw", !.trace = Append(@, Threw(spendFromAccount.err))]
    ELSE IF ~spendFromAccount.val.some
    THEN [start EXCEPT !.pc = "threw",
                       !.trace = Append(@, Threw("spendFromAccount should not be undefined here"))]
    ELSE CreatePromised([start EXCEPT !.pc = "resolving",
                                      !.spendFromAccount = spendFromAccount.val,
                                      !.inputsById = getInputMap(start.state).byId],
                        getPromisedInputMap(getInputMap(start.state)))

\* create() from line 53: the validity check and the input map
CreateChecked(start, valid) ==
    IF valid.thrown
    THEN [start EXCEPT !.pc = "threw", !.trace = Append(@, Threw(valid.err))]
    ELSE IF ~valid.val
    THEN [start EXCEPT !.pc = "aborted", !.trace = @ \o DispatchEvents(AbortDispatches)]
    ELSE IF ~getInputMap(start.state).defined
    THEN [start EXCEPT !.pc = "threw",
                       !.trace = Append(@, Threw(
                           "create should not have been called when inputMap is undefined"))]
    ELSE CreateFunded(start, getContractValue(start.state))

\* create() after its first dispatch, on the state it reads
CreateStarted(state) ==
    CreateChecked(Invocation("started", state, <<Dispatched(updateIsCalling(TRUE))>>),
                  areInputsValid(state))

\* create() up to the return of the thunk
CreateThunk(state0) == CreateStarted(Reduce(state0, updateIsCalling(TRUE)))

RECURSIVE DispatchedActions(_)
\* the actions dispatched in a trace, in order
DispatchedActions(trace) ==
    IF trace = <<>> THEN <<>>
    ELSE IF Head(trace).ev = "dispatch"
    THEN <<Head(trace).action>> \o DispatchedActions(Tail(trace))
    ELSE DispatchedActions(Tail(trace))

\* the dispatches of trace beyond its first n events
DispatchesFrom(trace, n) == DispatchedActions(SubSeq(trace, n + 1, Len(trace)))

\* invocation i becomes r: its new dispatches reach the store
Step(i, r) ==
    LET before == IF i \in DOMAIN inv THEN Len(inv[i].trace) ELSE 0
        state  == ReduceAll(State, DispatchesFrom(r.trace, before))
    IN  /\ inv' = (IF i \in DOMAIN inv THEN [inv EXCEPT ![i] = r] ELSE Append(inv, r))
        /\ templates' = state.templates
        /\ contracts' = state.contracts
        /\ UNCHANGED ret

\* the answers of the remote client
Receivers == {[control_program |-> "00c1"]}

AccountPubkeys ==
    {[root_xpub |-> "xpub1",
      pubkey_infos |-> <<[pubkey |-> "ab12", pubkey_derivation_path |-> "0101"]>>]}

\* the responses of compile: on success data is the template, on failure
\* the reported error (a payload standing for itself when thrown)
CompileResponses ==
    {[status |-> "success", data |-> [program |-> "2002"]],
     [status |-> "fail", data |-> [error |-> "compile error"]]}

Utxos == {[transactionId |-> "tx1"]}

RemoteErrors == {"network error"}

\* the user invokes create()
Create ==
    /\ Len(inv) < MaxCreates
    /\ Step(Len(inv) + 1, CreateThunk(State))

\* the remote call for input id of invocation i answers
InputResolves(i, id, answer) ==
    LET r == inv[i]
        entry == ResolvedInput(r.inputsById[id], answer)
        r2 == [r EXCEPT !.pending = @ \ {id},
                        !.entries = @ @@ (id :> entry),
                        !.trace = Append(@, [ev |-> "resolved", op |-> "input", id |-> id])]
    IN  /\ id \in r.pending
        /\ r.pc \in {"resolving", "failed"}
        /\ Step(i, IF r.pc = "resolving" /\ AllSettled(r2.pending) THEN CallCompile(r2) ELSE r2)

\* the remote call for input id of invocation i is rejected
InputRejects(i, id, err) ==
    LET r == inv[i]
        r2 == [r EXCEPT !.pending = @ \ {id},
                        !.trace = Append(@, [ev |-> "rejected", op |-> "input", id |-> id,
                                             err |-> err])]
    IN  /\ id \in r.pending
        /\ r.pc \in {"resolving", "failed"}
        /\ Step(i, IF r.pc = "resolving" THEN Fail(r2, err) ELSE r2)

\* compile answers invocation i: a template, or status 'fail' with its data
CompileReturns(i, resp) ==
    LET r == inv[i]
        data == resp.data
        r2 == [r EXCEPT !.trace = Append(@, [ev |-> "resolved", op |-> "compile",
                                             resp |-> resp])]
    IN  /\ r.pc = "compiling"
        /\ Step(i, IF CompileFailed(resp.status) THEN Fail(r2, data.error)
                   ELSE [r2 EXCEPT !.pc = "submitting",
                                   !.trace = Append(@,
                                       [ev |-> "call", op |-> "createLockingTx",
                                        actions |-> LockingActions(r.spendFromAccount.v, data),
                                        password |-> r.spendFromAccount.v.password])])

CompileRejects(i, err) ==
    LET r == inv[i]
        r2 == [r EXCEPT !.trace = Append(@, [ev |-> "rejected", op |-> "compile", err |-> err])]
    IN  /\ r.pc = "compiling"
        /\ Step(i, Fail(r2, err))

\* the locking transaction of invocation i is accepted
LockingTxReturns(i, utxo) ==
    LET r == inv[i]
        r2 == [r EXCEPT !.pc = "done",
                        !.trace = Append(@, [ev |-> "resolved", op |-> "createLockingTx",
                                             utxo |-> utxo])
                                  \o DispatchEvents(SuccessDispatches(r.source, utxo))]
    IN  /\ r.pc = "submitting"
        /\ Step(i, r2)

LockingTxRejects(i, err) ==
    LET r == inv[i]
        r2 == [r EXCEPT !.trace = Append(@, [ev |-> "rejected", op |-> "createLockingTx",
                                             err |-> err])]
    IN  /\ r.pc = "submitting"
        /\ Step(i, Fail(r2, err))

\* what the user has entered: nothing, every input, every input with the
\* keys and programs typed in, every input but a negative amount
Fillings == {"default", "filled", "provided", "negative"}

FilledValue(filling, input) ==
    CASE input.type = "accountInput"       -> "acc1"
      [] input.type = "amountInput"        -> IF filling = "negative" THEN "-1" ELSE "500"
      [] input.type = "passwordInput"      -> "pw"
      [] input.type = "gasInput"           -> "1"
      [] input.type = "assetAliasInput"    -> "asset1"
      [] input.type = "provideStringInput" -> "ab12"
      [] input.type = "numberInput"        -> "12abc"
      [] input.type = "provideOriginInput" -> "abc"
      [] input.type = "assetAliasWithBTMInput" -> "ab12"
      [] input.type \in {"publicKeyInput", "programInput"} ->
           IF filling = "provided" THEN "provideStringInput" ELSE input.value
      [] OTHER -> input.value

\* the template state after the user's edits (updateInput on each input)
Filled(tmpl, filling) ==
    IF filling = "default" THEN tmpl
    ELSE LET byId == tmpl.inputMap.byId
         IN  [tmpl EXCEPT !.inputMap.byId =
                 [id \in DOMAIN byId |->
                     [byId[id] EXCEPT !.value = FilledValue(filling, byId[id])]]]

\* the templates create is exercised on
CreateTemplates ==
    { Compiled(<<>>, "v"),
      Compiled(<<Param("pk", "PublicKey"), Param("prog", "Program")>>, "v"),
      Compiled(<<Param("b", "Boolean"), Param("n", "Integer")>>, "v"),
      Compiled(<<Param("s", "String"), Param("h", "Sha256"), Param("a", "Asset")>>, "v"),
      Compiled(<<Param("val", "Value")>>, "v") }

Init ==
    /\ templates \in {Filled(TemplateState("src", c), f) : c \in CreateTemplates, f \in Fillings}
                     \cup {EmptyTemplateState("src")}
    /\ contracts = [isCalling |-> FALSE]
    /\ inv = <<>>
    /\ ret = NoCall

\* what the remote client answers to the call made for an input
Answers(input) == IF input.type = "programInput" THEN Receivers ELSE AccountPubkeys

Next ==
    \/ Create
    \/ \E i \in DOMAIN inv : \E id \in inv[i].pending :
          \E answer \in Answers(inv[i].inputsById[id]) : InputResolves(i, id, answer)
    \/ \E i \in DOMAIN inv : \E id \in inv[i].pending :
          \E err \in RemoteErrors : InputRejects(i, id, err)
    \/ \E i \in DOMAIN inv : \E resp \in CompileResponses : CompileReturns(i, resp)
    \/ \E i \in DOMAIN inv : \E err \in RemoteErrors : CompileRejects(i, err)
    \/ \E i \in DOMAIN inv : \E utxo \in Utxos : LockingTxReturns(i, utxo)
    \/ \E i \in DOMAIN inv : \E err \in RemoteErrors : LockingTxRejects(i, err)

Spec == Init /\ [][Next]_vars

(***************************************************************************)
(* Claims about create (Spec)                                              *)
(***************************************************************************)

\* the positions of the events of trace that satisfy a test on kind and op
EventsOf(trace, ev, op) ==
    {k \in 1..Len(trace) : trace[k].ev = ev /\ trace[k].op = op}

\* the invocation reached the end of a path of create
Finished(r) == r.pc \in {"done", "failed", "aborted", "threw"}

\* action is among the dispatches of trace
HasDispatched(trace, action) ==
    \E k \in 1..Len(trace) : trace[k].ev = "dispatch" /\ trace[k].action = action

\* trace dispatched a lock message of a kind
HasLockMessage(trace, kind) ==
    \E k \in 1..Len(trace) :
        /\ trace[k].ev = "dispatch"
        /\ trace[k].action.type = "templates/UPDATE_LOCK_MESSAGE"
        /\ trace[k].action.error.kind = kind

\* C1: an invocation of create on a state where areInputsValid is false
\* makes no remote call at all, and what it does is exactly four dispatches:
\* updateIsCalling(true), updateIsCalling(false), showLockInputMessages(true),
\* updateLockMessage with the fixed invalid-arguments error.
C1_InvalidInputsAbort ==
    \A i \in DOMAIN inv :
        areInputsValid(inv[i].state) = Return(FALSE) =>
            inv[i].trace =
                <<Dispatched(updateIsCalling(TRUE)),
                  Dispatched(updateIsCalling(FALSE)),
                  Dispatched(showLockInputMessages(TRUE)),
                  Dispatched(updateLockMessage(
                      [kind |-> "_error",
                       text |-> "One or more arguments to the contract are invalid."]))>>

\* C1 witness: create was invoked on a compiled template whose inputs are not
\* valid, and ended after its four dispatches
C1_Witness ==
    \E i \in DOMAIN inv :
        /\ getInputMap(inv[i].state).defined
        /\ areInputsValid(inv[i].state) = Return(FALSE)
        /\ inv[i].pc = "aborted"
        /\ Len(inv[i].trace) = 4
        /\ ~contracts.isCalling

\* C2: every invocation of create that reached the end of one of its paths
\* (its remote calls all answered) has dispatched updateIsCalling(false), and
\* on every path but the successful one also an error lock message and
\* showLockInputMessages(true).
C2_BusyAlwaysCleared ==
    \A i \in DOMAIN inv :
        Finished(inv[i]) =>
            /\ HasDispatched(inv[i].trace, updateIsCalling(FALSE))
            /\ inv[i].pc # "done" =>
                  /\ HasLockMessage(inv[i].trace, "_error")
                  /\ HasDispatched(inv[i].trace, showLockInputMessages(TRUE))

\* C3: in every invocation, compile is called only after each remote call
\* getPromisedInputMap issued has resolved; the locking transaction is
\* submitted only after compile has returned; and after a rejected input
\* resolution neither compile nor the locking transaction is ever called.
C3_StagesOrdered ==
    \A i \in DOMAIN inv :
        LET trace == inv[i].trace
        IN  /\ \A c \in EventsOf(trace, "call", "compile") :
                  /\ \A k \in EventsOf(trace, "call", "listReceiver") \cup
                              EventsOf(trace, "call", "createAccountPubkey") :
                        /\ k < c
                        /\ \E d \in EventsOf(trace, "resolved", "input") :
                              d < c /\ trace[d].id = trace[k].id
                  /\ \A d \in EventsOf(trace, "rejected", "input") : c < d
            /\ \A s \in EventsOf(trace, "call", "createLockingTx") :
                  \E d \in EventsOf(trace, "resolved", "compile") :
                      d < s /\ \E c \in EventsOf(trace, "call", "compile") : c < d
            /\ EventsOf(trace, "rejected", "input") # {} =>
                  /\ EventsOf(trace, "call", "compile") = {}
                  /\ EventsOf(trace, "call", "createLockingTx") = {}

\* C3 witness: two remote input resolutions answered, then compile was called
\* and returned, then the locking transaction was submitted
C3_Witness ==
    \E i \in DOMAIN inv :
        /\ Cardinality(EventsOf(inv[i].trace, "resolved", "input")) = 2
        /\ EventsOf(inv[i].trace, "call", "compile") # {}
        /\ EventsOf(inv[i].trace, "call", "createLockingTx") # {}

\* C4: once compile has answered with status 'fail', the invocation never
\* submits a locking transaction; its dispatches are updateIsCalling(true),
\* updateIsCalling(false), the error lock message carrying the response's
\* data, showLockInputMessages(true); setSource and the success message are
\* not among them.
C4_CompileFail ==
    \A i \in DOMAIN inv :
        \A d \in EventsOf(inv[i].trace, "resolved", "compile") :
            inv[i].trace[d].resp.status = "fail" =>
                /\ EventsOf(inv[i].trace, "call", "createLockingTx") = {}
                /\ DispatchedActions(inv[i].trace) =
                      <<updateIsCalling(TRUE),
                        updateIsCalling(FALSE),
                        updateLockMessage([kind |-> "_error",
                                           text |-> inv[i].trace[d].resp.data.error]),
                        showLockInputMessages(TRUE)>>
                /\ ~HasLockMessage(inv[i].trace, "_success")
                /\ \A k \in 1..Len(inv[i].trace) :
                      inv[i].trace[k].ev = "dispatch" =>
                          inv[i].trace[k].action.type # "templates/SET_SOURCE"

\* C4 witness: compile answered 'fail' and the failure has been dispatched
C4_Witness ==
    \E i \in DOMAIN inv :
        /\ \E d \in EventsOf(inv[i].trace, "resolved", "compile") :
              inv[i].trace[d].resp.status = "fail"
        /\ inv[i].pc = "failed"
        /\ templates.error = [kind |-> "_error", text |-> "compile error"]

\* the funding source an invocation read from its state
FundingSource(r) == getContractValue(r.state).val.v

\* C5: every locking transaction create submits carries three actions in
\* this order: the funding source read at invocation; a controlWithReceiver
\* to the compiled program with the source's assetId and amount; a
\* spendFromAccount of 20000000 of the all-'f' asset from the source's
\* account.  The password is the funding source's.
C5_LockingActions ==
    \A i \in DOMAIN inv :
        \A s \in EventsOf(inv[i].trace, "call", "createLockingTx") :
            LET call == inv[i].trace[s]
                src  == FundingSource(inv[i])
            IN  /\ Len(call.actions) = 3
                /\ call.actions[1] = src
                /\ call.actions[2] =
                      [type |-> "controlWithReceiver",
                       receiver |-> [controlProgram |-> inv[i].trace[s - 1].resp.data.program],
                       assetId |-> src.assetId,
                       amount |-> src.amount]
                /\ call.actions[3] =
                      [accountId |-> src.accountId,
                       amount |-> 20000000,
                       type |-> "spendFromAccount",
                       assetId |->
                           "ffffffffffffffffffffffffffffffffffffffffffffffffffffffffffffffff"]
                /\ call.password = src.password

\* C5 witness: a locking transaction was submitted for the program "2002"
\* with the funding source of 500 of asset1 from acc1
C5_Witness ==
    \E i \in DOMAIN inv :
        \E s \in EventsOf(inv[i].trace, "call", "createLockingTx") :
            /\ inv[i].trace[s].actions[1].accountId = "acc1"
            /\ inv[i].trace[s].actions[1].amount = 500
            /\ inv[i].trace[s].actions[2].receiver.controlProgram = "2002"
            /\ inv[i].trace[s].password = "pw"

\* C6: once the locking transaction has resolved, the dispatches of the
\* invocation are updateIsCalling(true) before the resolution and, after it
\* and in this order, setSource(the source read at invocation),
\* updateIsCalling(false), updateLockMessage(the success message naming the
\* returned transactionId), showLockInputMessages(true); no error lock
\* message is among them.
C6_SuccessDispatches ==
    \A i \in DOMAIN inv :
        \A d \in EventsOf(inv[i].trace, "resolved", "createLockingTx") :
            /\ DispatchedActions(SubSeq(inv[i].trace, 1, d)) = <<updateIsCalling(TRUE)>>
            /\ DispatchesFrom(inv[i].trace, d) =
                  <<setSource(getSource(inv[i].state)),
                    updateIsCalling(FALSE),
                    updateLockMessage(
                        [kind |-> "_success",
                         text |-> "transactions has been submited successfully.",
                         transactionId |-> inv[i].trace[d].utxo.transactionId]),
                    showLockInputMessages(TRUE)>>
            /\ ~HasLockMessage(inv[i].trace, "_error")

\* C6 witness: an invocation with two remote input resolutions ended in
\* success and the store shows the success message, busy cleared
C6_Witness ==
    \E i \in DOMAIN inv :
        /\ inv[i].pc = "done"
        /\ Cardinality(EventsOf(inv[i].trace, "resolved", "input")) = 2
        /\ templates.error.kind = "_success"
        /\ ~contracts.isCalling
        /\ templates.showLockInputErrors

\* getPromisedInputMap of the invocation has resolved
InputMapResolved(r) ==
    /\ r.pc \in {"compiling", "submitting", "done", "failed"}
    /\ r.pending = {}
    /\ EventsOf(r.trace, "rejected", "input") = {}

\* C7: when getPromisedInputMap resolves, whatever the order in which the
\* remote calls answered, the result has the key set of the map it was
\* given; an entry that is not a publicKeyInput, programInput or assetInput
\* is the original entry; a resolved entry is the original with new
\* computedData / keyData; and the given map (the one in the store as well)
\* is as it was.
C7_PromisedInputMap ==
    \A i \in DOMAIN inv :
        InputMapResolved(inv[i]) =>
            LET given == getInputMap(inv[i].state).byId
            IN  /\ DOMAIN inv[i].entries = DOMAIN given
                /\ \A id \in DOMAIN given :
                      IF given[id].type \in {"publicKeyInput", "programInput", "assetInput"}
                      THEN [inv[i].entries[id] EXCEPT !.computedData = given[id].computedData,
                                                      !.keyData = given[id].keyData]
                           = given[id]
                      ELSE inv[i].entries[id] = given[id]
                /\ inv[i].inputsById = given
                /\ getInputMap(State).byId = given

\* C7 witness: two remote calls were outstanding, the second issued answered
\* first, and the map resolved with the new data in both entries
C7_Witness ==
    \E i \in DOMAIN inv :
        /\ InputMapResolved(inv[i])
        /\ \E c1, c2 \in EventsOf(inv[i].trace, "call", "listReceiver") \cup
                         EventsOf(inv[i].trace, "call", "createAccountPubkey") :
              \E d1, d2 \in EventsOf(inv[i].trace, "resolved", "input") :
                  /\ c1 < c2
                  /\ d2 < d1
                  /\ inv[i].trace[d1].id = inv[i].trace[c1].id
                  /\ inv[i].trace[d2].id = inv[i].trace[c2].id
                  /\ inv[i].entries[inv[i].trace[c1].id].computedData
                        # inv[i].inputsById[inv[i].trace[c1].id].computedData

(***************************************************************************)
(* The generated string (SpecGenerate): getGenerateStringInputValue and    *)
(* validateInput applied to a generateStringInput whose value and seed are *)
(* drawn from bounded sets.                                                *)
(***************************************************************************)

\* the id of the generateStringInput of a String parameter s
GenerateId == <<"contractParameters", "s", "stringInput", "generateStringInput">>

\* the lengths a user types
GenerateValues ==
    {"", "0", "1", "4", "32", "500", "520", "521", "-1", "12abc", "ab12", "abc", "true"}

\* the seeds: the 1040 characters addDefaultInput draws, and shorter ones
Seeds ==
    {RandomSeed, SubSeq(RandomSeed, 1, 1039), SubSeq(RandomSeed, 1, 8), <<>>}

\* the template of a String parameter with the generateStringInput set
WithGenerate(value, seed) ==
    [TemplateState("src", Compiled(<<Param("s", "String")>>, "v"))
        EXCEPT !.inputMap.byId[GenerateId].value = value,
               !.inputMap.byId[GenerateId].seed = seed]

InitGenerate ==
    /\ templates \in {WithGenerate(value, seed) : value \in GenerateValues, seed \in Seeds}
    /\ contracts = [isCalling |-> FALSE]
    /\ inv = <<>>
    /\ ret = NoCall

CallGetGenerateStringInputValue ==
    /\ ret = NoCall
    /\ ret' = [fn |-> "getGenerateStringInputValue", id |-> GenerateId,
               out |-> getGenerateStringInputValue(templates.inputMap.byId[GenerateId])]
    /\ UNCHANGED <<templates, contracts, inv>>

CallValidateInput ==
    /\ ret = NoCall
    /\ ret' = [fn |-> "validateInput", id |-> GenerateId,
               out |-> validateInput(templates.inputMap.byId[GenerateId])]
    /\ UNCHANGED <<templates, contracts, inv>>

NextGenerate ==
    \/ CallGetGenerateStringInputValue
    \/ CallValidateInput

SpecGenerate == InitGenerate /\ [][NextGenerate]_vars

\* the generateStringInput of the current state
GenerateInput == templates.inputMap.byId[GenerateId]

\* C11: for a generateStringInput whose value parses to an integer n,
\* getGenerateStringInputValue returns the first 2*n characters of the seed
\* when 0 <= n <= 520 and fails otherwise; and whenever validateInput accepts
\* the input, it does not fail and its result is exactly 2*n long.
C11_GenerateString ==
    (ret.fn = "getGenerateStringInputValue" /\ ~parseInt(GenerateInput.value).nan) =>
        LET n    == parseInt(GenerateInput.value).n
            seed == GenerateInput.seed
        IN  /\ IF 0 <= n /\ n <= 520
               THEN /\ ~ret.out.thrown
                    /\ Len(ret.out.val) = (IF 2 * n <= Len(seed) THEN 2 * n ELSE Len(seed))
                    /\ \A k \in 1..Len(ret.out.val) : ret.out.val[k] = seed[k]
               ELSE ret.out.thrown
            /\ validateInput(GenerateInput) = Return(TRUE) =>
                  ~ret.out.thrown /\ Len(ret.out.val) = 2 * n

\* C11 witness: the value "4" on a seed of 1040 characters gives the first 8
\* characters of the seed
C11_Witness ==
    /\ ret.fn = "getGenerateStringInputValue"
    /\ GenerateInput.value = "4"
    /\ Len(GenerateInput.seed) = 1040
    /\ validateInput(GenerateInput) = Return(TRUE)
    /\ ret.out = Return(SubSeq(GenerateInput.seed, 1, 8))

\* C11 second witness: the value "521" fails
C11_TooLong ==
    /\ ret.fn = "getGenerateStringInputValue"
    /\ GenerateInput.value = "521"
    /\ ret.out.thrown

(***************************************************************************)
(* The default trees (SpecBuild): addDefaultInput and addParameterInput    *)
(* called once on a list, for every input type / parameter type and every  *)
(* input context.                                                          *)
(***************************************************************************)

\* the input types of inputs/types named in the tables of inputs/data
InputTypes ==
    {"parameterInput", "generateHashInput", "booleanInput", "generateStringInput",
     "numberInput", "timestampTimeInput", "provideStringInput", "provideHashInput",
     "providePublicKeyInput", "providePrivateKeyInput", "provideSignatureInput",
     "stringInput", "hashInput", "generatePublicKeyInput", "publicKeyInput",
     "generateSignatureInput", "programInput", "timeInput", "assetInput",
     "provideOriginInput", "accountInput", "assetAliasInput", "assetAliasWithBTMInput",
     "xpubInput", "pathInput", "valueInput", "amountInput", "passwordInput", "gasInput",
     "btmUnitInput", "signatureInput", "choosePublicKeyInput", "generatePrivateKeyInput"}

\* the parameter types getInputType and isHash know
ParameterTypes ==
    {"Integer", "Boolean", "Hash", "String", "OriginString", "PublicKey", "Time",
     "Signature", "Value", "Program", "Asset", "Amount", "Sha256", "Sha3"}

\* the name of a parameter or value slot in each input context
SlotNames ==
    {<<"contractParameters", "p">>, <<"contractValue", "v">>,
     <<"clauseParameters", "c", "p">>, <<"clauseValue", "c", "v">>,
     <<"unlockValue", "u">>}

\* the lists a builder is handed: empty, or holding an input already
StartLists == {<<>>, <<Input("accountInput", <<"contractValue", "w", "accountInput">>, "")>>}

InitBuild ==
    /\ templates = EmptyTemplateState("src")
    /\ contracts = [isCalling |-> FALSE]
    /\ inv = <<>>
    /\ ret = NoCall

CallAddDefaultInput(inputs, inputType, parentName) ==
    /\ ret = NoCall
    /\ ret' = [fn |-> "addDefaultInput", type |-> inputType, name |-> parentName,
               before |-> inputs, out |-> addDefaultInput(inputs, inputType, parentName)]
    /\ UNCHANGED <<templates, contracts, inv>>

CallAddParameterInput(inputs, valueType, name) ==
    /\ ret = NoCall
    /\ ret' = [fn |-> "addParameterInput", type |-> valueType, name |-> name,
               before |-> inputs, out |-> addParameterInput(inputs, valueType, name)]
    /\ UNCHANGED <<templates, contracts, inv>>

NextBuild ==
    \/ \E inputs \in StartLists : \E inputType \in InputTypes : \E parentName \in SlotNames :
          CallAddDefaultInput(inputs, inputType, parentName)
    \/ \E inputs \in StartLists : \E valueType \in ParameterTypes : \E name \in SlotNames :
          CallAddParameterInput(inputs, valueType, name)

SpecBuild == InitBuild /\ [][NextBuild]_vars

\* the nodes a call appended to the list it was handed
Appended == SubSeq(ret.out.inputs, Len(ret.before) + 1, Len(ret.out.inputs))

\* C12: addDefaultInput with type generatePublicKeyInput completes and
\* leaves the list extended by the generatePublicKeyInput node, its children
\* generatePrivateKeyInput and providePrivateKeyInput, and then the
\* timestampTimeInput child of the timeInput case.
C12_GeneratePublicKeyFallthrough ==
    (ret.fn = "addDefaultInput" /\ ret.type = "generatePublicKeyInput") =>
        /\ ~ret.out.thrown
        /\ SubSeq(ret.out.inputs, 1, Len(ret.before)) = ret.before
        /\ [k \in 1..Len(Appended) |-> Appended[k].name] =
              <<Append(ret.name, "generatePublicKeyInput"),
                Append(Append(ret.name, "generatePublicKeyInput"), "generatePrivateKeyInput"),
                Append(Append(ret.name, "generatePublicKeyInput"), "providePrivateKeyInput"),
                Append(Append(ret.name, "generatePublicKeyInput"), "timestampTimeInput")>>
        /\ [k \in 1..Len(Appended) |-> Appended[k].type] =
              <<"generatePublicKeyInput", "generatePrivateKeyInput",
                "providePrivateKeyInput", "timestampTimeInput">>

\* what addDefaultInput with type generatePublicKeyInput does: in each of
\* the five contexts it appends the generatePublicKeyInput node alone and
\* then throws, the default value of generatePrivateKeyInput being refused
C12_GeneratePublicKeyThrows ==
    (ret.fn = "addDefaultInput" /\ ret.type = "generatePublicKeyInput") =>
        /\ ret.out.thrown
        /\ ret.out.err = "generatePrivateKeyInput should not be allowed"
        /\ Len(Appended) = 1
        /\ Appended[1].type = "generatePublicKeyInput"

\* addDefaultInput was called with type generatePublicKeyInput
C12_Called ==
    /\ ret.fn = "addDefaultInput"
    /\ ret.type = "generatePublicKeyInput"
    /\ ret.name = <<"contractParameters", "p">>
    /\ ret.before # <<>>

(***************************************************************************)
(* The UTXO lookup (SpecUtxo): setUtxoID and fetchUtxoInfo.  Here          *)
(* contracts is [isCalling, utxoId, utxoInfo, route] and inv holds the     *)
(* invocations of fetchUtxoInfo: pc, the utxoId read at invocation, and    *)
(* the trace of what the invocation did.                                   *)
(***************************************************************************)

\* the number of times fetchUtxoInfo() is invoked
MaxFetches == 2

\* the ids the user types into the UTXO field
UtxoIds == {"u1", "u2", "u3"}

\* what the unspent-output lookup answers
UtxoInfos == {<<>>, <<[id |-> "out1", program |-> "2002"]>>}

getUtxoId(state) == state.contracts.utxoId

\* prefixRoute(path) of core: the path under the application's prefix
prefixRoute(path) == "/equity" \o path

\* push(location) of react-router-redux
push(location) == [type |-> "@@router/CALL_HISTORY_METHOD", location |-> location]

SetUtxoIdAction(utxoId) == [type |-> "contracts/SET_UTXO_ID", id |-> utxoId]

SetUtxoInfoAction(data) == [type |-> "contracts/SET_UTXO_INFO", info |-> data]

\* the route fetchUtxoInfo would push if it read the id again on resolution
UnlockRouteOfStore(utxoId, state) == prefixRoute("/unlock/" \o getUtxoId(state))

\* the route fetchUtxoInfo pushes: the id is the one read at invocation
UnlockRoute(utxoId, state) == prefixRoute("/unlock/" \o utxoId)

\* the contracts reducer and the router: what a dispatched action does
ReduceContracts(c, action) ==
    CASE action.type = "contracts/SET_UTXO_ID" -> [c EXCEPT !.utxoId = action.id]
      [] action.type = "contracts/SET_UTXO_INFO" -> [c EXCEPT !.utxoInfo = action.info]
      [] action.type = "@@router/CALL_HISTORY_METHOD" -> [c EXCEPT !.route = action.location]

RECURSIVE ReduceContractsAll(_, _)
ReduceContractsAll(c, actions) ==
    IF actions = <<>> THEN c
    ELSE ReduceContractsAll(ReduceContracts(c, Head(actions)), Tail(actions))

\* the dispatches of the then-callback of fetchUtxoInfo
UtxoInfoDispatches(utxoId, data, state) ==
    <<SetUtxoInfoAction(data), push(UnlockRoute(utxoId, state))>>

InitUtxo ==
    /\ templates = EmptyTemplateState("src")
    /\ contracts = [isCalling |-> FALSE, utxoId |-> "", utxoInfo |-> <<>>, route |-> "/"]
    /\ inv = <<>>
    /\ ret = NoCall

\* the user edits the UTXO id field
SetUtxoID(utxoId) ==
    /\ contracts.utxoId # utxoId
    /\ contracts' = ReduceContracts(contracts, SetUtxoIdAction(utxoId))
    /\ UNCHANGED <<templates, inv, ret>>

\* fetchUtxoInfo() up to the return of the thunk: the id is read and the
\* lookup is sent
FetchUtxoInfo ==
    /\ Len(inv) < MaxFetches
    /\ inv' = Append(inv, [pc |-> "waiting", utxoId |-> getUtxoId(State),
                           trace |-> <<[ev |-> "call", op |-> "listUpspentUtxos",
                                        arg |-> [id |-> getUtxoId(State),
                                                 smart_contract |-> TRUE]]>>])
    /\ UNCHANGED <<templates, contracts, ret>>

\* the lookup of invocation i resolves with data
LookupResolves(i, data) ==
    /\ inv[i].pc = "waiting"
    /\ inv' = [inv EXCEPT ![i].pc = "done",
                          ![i].trace = Append(@, [ev |-> "resolved", op |-> "listUpspentUtxos",
                                                  data |-> data])
                                       \o DispatchEvents(
                                              UtxoInfoDispatches(inv[i].utxoId, data, State))]
    /\ contracts' = ReduceContractsAll(contracts,
                                       UtxoInfoDispatches(inv[i].utxoId, data, State))
    /\ UNCHANGED <<templates, ret>>

\* the lookup of invocation i is rejected: no handler is attached
LookupRejects(i, err) ==
    /\ inv[i].pc = "waiting"
    /\ inv' = [inv EXCEPT ![i].pc = "rejected",
                          ![i].trace = Append(@, [ev |-> "rejected", op |-> "listUpspentUtxos",
                                                  err |-> err])]
    /\ UNCHANGED <<templates, contracts, ret>>

NextUtxo ==
    \/ \E utxoId \in UtxoIds : SetUtxoID(utxoId)
    \/ FetchUtxoInfo
    \/ \E i \in DOMAIN inv : \E data \in UtxoInfos : LookupResolves(i, data)
    \/ \E i \in DOMAIN inv : \E err \in RemoteErrors : LookupRejects(i, err)

SpecUtxo == InitUtxo /\ [][NextUtxo]_vars

\* C13: an invocation of fetchUtxoInfo dispatches nothing before its lookup
\* resolves; on resolution it dispatches SET_UTXO_INFO with the lookup's
\* result and then the navigation to the unlock route of the id it sent in
\* the lookup, whatever the id in the store has become; after a rejected
\* lookup it has dispatched nothing.
C13_FetchUtxoInfo ==
    \A i \in DOMAIN inv :
        LET trace == inv[i].trace
            sent  == trace[1].arg.id
        IN  /\ trace[1].ev = "call" /\ trace[1].op = "listUpspentUtxos"
            /\ inv[i].pc = "waiting" => Len(trace) = 1
            /\ inv[i].pc = "rejected" => DispatchedActions(trace) = <<>>
            /\ inv[i].pc = "done" =>
                  /\ trace[2].ev = "resolved"
                  /\ SubSeq(trace, 3, Len(trace)) =
                        <<Dispatched([type |-> "contracts/SET_UTXO_INFO",
                                      info |-> trace[2].data]),
                          Dispatched(push(prefixRoute("/unlock/" \o sent)))>>

\* C13 witness: the id was changed while the lookup was outstanding, the
\* lookup resolved, and the route names the id that was sent
C13_Witness ==
    \E i \in DOMAIN inv :
        /\ inv[i].pc = "done"
        /\ inv[i].utxoId = "u1"
        /\ contracts.utxoId = "u2"
        /\ contracts.route = prefixRoute("/unlock/u1")
        /\ contracts.utxoInfo = inv[i].trace[2].data
        /\ contracts.utxoInfo # <<>>

(***************************************************************************)
(* Claims about the busy flag and the funding source (Spec)                *)
(***************************************************************************)

\* the invocation ran its success handler, its failure handler or its abort
Handled(r) == r.pc \in {"done", "failed", "aborted"}

\* C14 as stated: the busy flag is true in every state in which some create
\* invocation has started and has not reached its success handler, its
\* failure handler or its invalid-inputs abort.
C14_BusyWhileInFlight ==
    (\E i \in DOMAIN inv : ~Handled(inv[i])) => contracts.isCalling

\* C14 amended: the busy flag is the value of the latest updateIsCalling
\* dispatch of any invocation.  A step in which an invocation runs its
\* success handler, failure handler or abort leaves it false; any other step
\* that starts an invocation leaves it true; every other step leaves it as
\* it was.  So it is true while an invocation is in flight only until some
\* invocation, that one or another, reaches a handler.
C14_BusyFollowsLastDispatch ==
    [][ IF \E i \in DOMAIN inv' :
              Handled(inv'[i]) /\ (i \in DOMAIN inv => ~Handled(inv[i]))
        THEN ~contracts'.isCalling
        ELSE IF Len(inv') > Len(inv) THEN contracts'.isCalling
        ELSE contracts'.isCalling = contracts.isCalling ]_vars

\* C14 witness: one invocation is waiting for compile while another has run
\* its failure handler, and the busy flag is false
C14_Witness ==
    \E i, j \in DOMAIN inv :
        /\ inv[i].pc = "compiling"
        /\ inv[j].pc = "failed"
        /\ ~contracts.isCalling

\* C15: in every state in which areInputsValid returns true, getContractValue
\* returns a funding source, so create does not reach its 'spendFromAccount
\* should not be undefined here' failure after the validity check.
C15_ValidImpliesFunded ==
    /\ areInputsValid(State) = Return(TRUE) =>
          /\ ~getContractValue(State).thrown
          /\ getContractValue(State).val.some
    /\ \A i \in DOMAIN inv :
          inv[i].trace[Len(inv[i].trace)]
              # Threw("spendFromAccount should not be undefined here")

\* C15 witness: the inputs are valid, two valueInput subtrees are populated
\* and getContractValue returns none
C15_ValidUnfunded ==
    /\ areInputsValid(State) = Return(TRUE)
    /\ Cardinality(PopulatedValueInputs) = 2
    /\ getContractValue(State) = Return(None)

(***************************************************************************)
(* Claims about the arguments of compile (Spec)                            *)
(***************************************************************************)

\* the arguments of the compile call are, in parameter order, the coerced
\* data of the contract parameters on the resolved input map
ArgsOfParameters(args, ids, entries) ==
    /\ Len(args) = Len(ids)
    /\ \A k \in 1..Len(ids) :
          /\ ~getData(ids[k], entries).thrown
          /\ args[k] = CoerceArg(getData(ids[k], entries).val)

C16_Integers ==
    \E i \in DOMAIN inv :
        \E k \in EventsOf(inv[i].trace, "call", "compile") :
            /\ Len(inv[i].trace[k].args) = 2
            /\ inv[i].trace[k].args[2] = [integer |-> [n |-> 12, nan |-> FALSE]]

(***************************************************************************)
(* Claims about the trees of addParameterInput (SpecBuild)                 *)
(***************************************************************************)

\* the input a node selects is in the list
ChildSelected(node, inputs) ==
    \E k \in 1..Len(inputs) : inputs[k].name = getChild(node)

\* every node of a complex type, and every assetInput node, selects an input
\* of the list
ClosedUnderChildSelection(inputs) ==
    \A k \in 1..Len(inputs) :
        (isComplexType(inputs[k].type) \/ inputs[k].type = "assetInput") =>
            ChildSelected(inputs[k], inputs)

\* the call read an input the map does not hold
MissingInput(r) == IF r.thrown THEN r.err = TypeError ELSE FALSE

\* addParameterInput was called and completed
ParameterInputBuilt == IF ret.fn = "addParameterInput" THEN ~ret.out.thrown ELSE FALSE

\* C17: for every input context and every parameter type for which
\* addParameterInput completes, the list it produced is closed under child
\* selection (each node of a complex type and each assetInput node selects
\* an input named name.value of the list), and isValidInput on the
\* parameter's root id never reaches a missing input.
C17_ClosedUnderChildSelection ==
    ParameterInputBuilt =>
        /\ ClosedUnderChildSelection(Appended)
        /\ ~MissingInput(isValidInput(ret.name, InputMapOf(ret.out.inputs).byId))

\* what holds of addParameterInput: the lists built under contractParameters
\* and contractValue are closed under child selection
C17_ClosedInContractContexts ==
    (ParameterInputBuilt /\ ret.name[1] \in {"contractParameters", "contractValue"}) =>
        /\ ClosedUnderChildSelection(Appended)
        /\ ~MissingInput(isValidInput(ret.name, InputMapOf(ret.out.inputs).byId))

\* C17 witness: addParameterInput completed for a Time parameter of a
\* clause; its timeInput selects blockheightTimeInput, the list holds
\* timestampTimeInput alone, and isValidInput on the root reads a missing
\* input
C17_TimeOfClause ==
    /\ ParameterInputBuilt
    /\ ret.type = "Time"
    /\ ret.name = <<"clauseParameters", "c", "p">>
    /\ \E k \in 1..Len(Appended) :
          /\ Appended[k].type = "timeInput"
          /\ Appended[k].value = "blockheightTimeInput"
          /\ ~ChildSelected(Appended[k], Appended)
    /\ MissingInput(isValidInput(ret.name, InputMapOf(ret.out.inputs).byId))

(***************************************************************************)
(* The recursion of getData and isValidInput, one call at a time           *)
(* (SpecWalk).  templates.inputMap is the map walked; ret is the call in   *)
(* progress: todo holds the calls still to run, the running one first,     *)
(* each with the id of the call that made it; visited holds the calls      *)
(* already run; frames holds the generateHashInput inputs whose getData    *)
(* waits for its child's data.                                             *)
(***************************************************************************)

\* state.templates holding the inputs addParameterInput built for one
\* parameter of a type under a name
WalkTemplate(valueType, name) ==
    [EmptyTemplateState("src") EXCEPT
        !.inputMap = InputMapOf(addParameterInput(<<>>, valueType, name).inputs)]

\* the maps walked: each tree addParameterInput completes, as built and
\* after the user's edits
WalkTemplates ==
    {Filled(WalkTemplate(valueType, name), f) :
        valueType \in {t \in ParameterTypes :
                         \A n \in SlotNames : ~addParameterInput(<<>>, t, n).thrown},
        name \in SlotNames, f \in Fillings}

\* the ids a walk starts from: every id of the map, and one it lacks
WalkIds == DOMAIN templates.inputMap.byId \cup {<<"contractParameters", "missing">>}

InitWalk ==
    /\ templates \in WalkTemplates
    /\ contracts = [isCalling |-> FALSE]
    /\ inv = <<>>
    /\ ret = NoCall

\* a call of getData or isValidInput on id made by the call on from
CallOn(id, from) == [id |-> id, from |-> from]

Running == IF ret.fn \in {"getData", "isValidInput"} THEN ret.pc = "running" ELSE FALSE

Returned == IF ret.fn \in {"getData", "isValidInput"} THEN ret.pc # "running" ELSE FALSE

\* the result of a call that has not returned
NoResult == [pending |-> TRUE]

\* getData(inputId, inputsById) or isValidInput(id, inputMap) is called
Call(fn, id) ==
    /\ ~Running
    /\ ret' = [fn |-> fn, start |-> id, pc |-> "running",
               todo |-> <<CallOn(id, <<>>)>>, visited |-> <<>>, frames |-> <<>>,
               out |-> NoResult]
    /\ UNCHANGED <<templates, contracts, inv>>

\* the outermost call returns or fails with out
Finish(out) ==
    [ret EXCEPT !.pc = IF out.thrown THEN "failed" ELSE "returned",
                !.visited = Append(@, Head(ret.todo)),
                !.todo = <<>>,
                !.frames = <<>>,
                !.out = out]

\* the running call calls itself on the ids of children, in order
Recurse(children) ==
    [ret EXCEPT !.visited = Append(@, Head(ret.todo)),
                !.todo = [k \in 1..Len(children) |->
                             CallOn(children[k], Head(ret.todo).id)] \o Tail(@)]

\* the running call returned true to a caller that goes on with the next
NextConjunct ==
    [ret EXCEPT !.visited = Append(@, Head(ret.todo)), !.todo = Tail(@)]

RECURSIVE Unwind(_, _)

\* the waiting generateHashInput calls, innermost first, hash the data
Unwind(frames, data) ==
    IF frames = <<>> THEN data
    ELSE Unwind(SubSeq(frames, 1, Len(frames) - 1),
                HashOfChild(frames[Len(frames)], data))

\* what the running getData call does once validateInput has answered
GetDataValidated(input, inputsById, ok) ==
    IF ok.thrown THEN Finish(ok)
    ELSE IF ~ok.val THEN Finish(Throw("invalid input"))
    ELSE IF input.type \in {"timeInput", "parameterInput", "stringInput", "hashInput",
                            "signatureInput"}
    THEN Recurse(<<getChild(input)>>)
    ELSE IF input.type = "generateHashInput"
    THEN [Recurse(<<getChild(input)>>) EXCEPT !.frames = Append(@, input)]
    ELSE Finish(Unwind(ret.frames, DataOf(input, inputsById)))

\* one call of getData runs up to its recursive call or its return
StepGetData ==
    /\ Running
    /\ ret.fn = "getData"
    /\ LET id == Head(ret.todo).id
           inputsById == templates.inputMap.byId
       IN  ret' = IF ~Has(inputsById, id) THEN Finish(Throw(TypeError))
                  ELSE GetDataValidated(inputsById[id], inputsById,
                                        validateInput(inputsById[id]))
    /\ UNCHANGED <<templates, contracts, inv>>

\* what the running isValidInput call does with validateInput's answer
IsValidInputLeaf(ok) ==
    IF ok.thrown THEN Finish(ok)
    ELSE IF ~ok.val THEN Finish(Return(FALSE))
    ELSE IF Tail(ret.todo) = <<>> THEN Finish(Return(TRUE))
    ELSE NextConjunct

\* one call of isValidInput runs up to its recursive calls or its return
StepIsValidInput ==
    /\ Running
    /\ ret.fn = "isValidInput"
    /\ LET id == Head(ret.todo).id
           inputMap == templates.inputMap.byId
       IN  ret' = IF ~Has(inputMap, id) THEN Finish(Throw(TypeError))
                  ELSE IF inputMap[id].type \in
                             {"parameterInput", "stringInput", "hashInput",
                              "generateHashInput", "publicKeyInput", "timeInput",
                              "signatureInput", "programInput"}
                  THEN Recurse(<<getChild(inputMap[id])>>)
                  ELSE IF inputMap[id].type = "valueInput"
                  THEN Recurse(<<Append(inputMap[id].name, "accountInput"),
                                 Append(inputMap[id].name, "assetInput"),
                                 Append(inputMap[id].name, "amountInput"),
                                 Append(inputMap[id].name, "passwordInput"),
                                 Append(inputMap[id].name, "gasInput")>>)
                  ELSE IsValidInputLeaf(validateInput(inputMap[id]))
    /\ UNCHANGED <<templates, contracts, inv>>

NextWalk ==
    \/ \E id \in WalkIds : Call("getData", id)
    \/ \E id \in WalkIds : Call("isValidInput", id)
    \/ StepGetData
    \/ StepIsValidInput

\* a call that has started runs on: the recursion is synchronous
SpecWalk ==
    InitWalk /\ [][NextWalk]_vars /\ WF_vars(StepGetData) /\ WF_vars(StepIsValidInput)

\* id is from with at least one more component
StrictlyExtends(id, from) ==
    /\ Len(id) > Len(from)
    /\ SubSeq(id, 1, Len(from)) = from

\* the calls of the walk, run and still to run
WalkCalls == ret.visited \o ret.todo

\* every recursive call is on an id that strictly extends its caller's id,
\* no id is called twice, and the calls are no more than the map has
\* entries, the one on a missing id apart
WalkDescends ==
    ret.fn \in {"getData", "isValidInput"} =>
        /\ \A k \in 1..Len(WalkCalls) :
              StrictlyExtends(WalkCalls[k].id, WalkCalls[k].from)
        /\ \A j, k \in 1..Len(WalkCalls) : j # k => WalkCalls[j].id # WalkCalls[k].id
        /\ Len(ret.visited) <= Cardinality(DOMAIN templates.inputMap.byId) + 1

\* the walk ends with what the function computes
WalkAgrees ==
    Returned =>
        ret.out = IF ret.fn = "getData"
                  THEN getData(ret.start, templates.inputMap.byId)
                  ELSE isValidInput(ret.start, templates.inputMap.byId)

\* C18: on a finite input map, getData and isValidInput started at any id
\* terminate, with a value or a failure: each recursive step moves to an id
\* that strictly extends the current id, no id is visited twice, and every
\* call that starts ends.
C18_Terminates ==
    /\ []WalkDescends
    /\ (Running ~> Returned)

\* C18 witness: getData on the root of a hash parameter went down four ids,
\* parameterInput, hashInput, generateHashInput and provideOriginInput, and
\* returned the hash of the origin string
C18_Witness ==
    /\ Returned
    /\ ret.fn = "getData"
    /\ ret.pc = "returned"
    /\ Len(ret.visited) = 4
    /\ templates.inputMap.byId[ret.visited[3].id].type = "generateHashInput"
    /\ ret.visited[4].from = ret.visited[3].id

\* C18 witness of the branching case: isValidInput on a valueInput went
\* through its five children and returned true
C18_ValueWalk ==
    /\ Returned
    /\ ret.fn = "isValidInput"
    /\ ret.out = Return(TRUE)
    /\ Len(ret.visited) >= 6

====
